---- MODULE Spec2Model ----
(***************************************************************************)
(* Model of the MCP tool servers of this repository:                       *)
(*   file-system-mcp/server.py    the sandboxed filesystem tools            *)
(*   documentation-mcp/server.py  the semantic index over markdown files    *)
(*   memory-mcp/server.py         the memory store with semantic search     *)
(* Path strings are sequences of one-character strings, so that            *)
(* str.startswith is a prefix test on characters, as in the code.          *)
(***************************************************************************)
EXTENDS Integers, Sequences, FiniteSets, TLC

(***************************************************************************)
(* Bounds of the model.                                                    *)
(***************************************************************************)
\* longest caller-supplied path, in "/"-separated segments
MaxSegs == 2
\* most lines a written file holds
MaxLines == 2
\* markdown files the documentation directory can hold
MaxDocs == 2
\* rebuilds of the index the documentation server is followed through
MaxRebuilds == 2
\* threads that serve documentation requests
NThreads == 2

(***************************************************************************)
(* Strings and POSIX path functions (os.path of the standard library, as   *)
(* used by the servers).                                                   *)
(***************************************************************************)
SEP == "/"

RECURSIVE JoinSep(_)
\* "/".join(comps)
JoinSep(comps) ==
    IF comps = <<>> THEN <<>>
    ELSE IF Len(comps) = 1 THEN comps[1]
    ELSE comps[1] \o <<SEP>> \o JoinSep(Tail(comps))

\* str.startswith
StartsWith(s, t) == Len(s) >= Len(t) /\ SubSeq(s, 1, Len(t)) = t

RECURSIVE SplitSep(_)
\* s.split("/")
SplitSep(s) ==
    IF \A i \in 1..Len(s) : s[i] # SEP THEN <<s>>
    ELSE LET k == CHOOSE i \in 1..Len(s) :
                      s[i] = SEP /\ \A j \in 1..(i-1) : s[j] # SEP
         IN  <<SubSeq(s, 1, k-1)>> \o SplitSep(SubSeq(s, k+1, Len(s)))

\* posixpath.join(a, b)
PathJoin(a, b) ==
    IF StartsWith(b, <<SEP>>) THEN b
    ELSE IF a = <<>> \/ a[Len(a)] = SEP THEN a \o b
    ELSE a \o <<SEP>> \o b

DOTDOT == <<".", ".">>
DOT == <<".">>

RECURSIVE NormComps(_, _, _)
\* the component loop of posixpath.normpath
NormComps(comps, acc, slashes) ==
    IF comps = <<>> THEN acc
    ELSE LET c == Head(comps)
             rest == Tail(comps)
         IN  IF c = <<>> \/ c = DOT THEN NormComps(rest, acc, slashes)
             ELSE IF c # DOTDOT
                     \/ (slashes = 0 /\ acc = <<>>)
                     \/ (acc # <<>> /\ acc[Len(acc)] = DOTDOT)
                  THEN NormComps(rest, Append(acc, c), slashes)
             ELSE IF acc # <<>>
                  THEN NormComps(rest, SubSeq(acc, 1, Len(acc) - 1), slashes)
             ELSE NormComps(rest, acc, slashes)

\* number of leading slashes posixpath.normpath keeps (POSIX: exactly two stay two)
InitialSlashes(s) ==
    IF ~StartsWith(s, <<SEP>>) THEN 0
    ELSE IF StartsWith(s, <<SEP, SEP>>) /\ ~StartsWith(s, <<SEP, SEP, SEP>>) THEN 2
    ELSE 1

\* posixpath.normpath
NormPath(s) ==
    IF s = <<>> THEN DOT
    ELSE LET n == InitialSlashes(s)
             body == JoinSep(NormComps(SplitSep(s), <<>>, n))
             p == (IF n = 2 THEN <<SEP, SEP>> ELSE IF n = 1 THEN <<SEP>> ELSE <<>>) \o body
         IN  IF p = <<>> THEN DOT ELSE p

\* posixpath.abspath of a path that is already absolute after the join
AbsPath(s) == NormPath(s)

\* posixpath.dirname
DirName(s) ==
    LET idx == {i \in 1..Len(s) : s[i] = SEP}
        i == IF idx = {} THEN 0 ELSE CHOOSE k \in idx : \A j \in idx : j <= k
        head == SubSeq(s, 1, i)
    IN  IF head # <<>> /\ \E k \in 1..Len(head) : head[k] # SEP
        THEN LET last == CHOOSE k \in 1..Len(head) :
                             head[k] # SEP /\ \A j \in (k+1)..Len(head) : head[j] = SEP
             IN SubSeq(head, 1, last)
        ELSE head

\* the components of an absolute normalized path: the location it names
Comps(s) == NormComps(SplitSep(s), <<>>, 1)

(***************************************************************************)
(* file-system-mcp: the sandbox root, the paths a caller can supply and    *)
(* the filesystem the tools act on.                                        *)
(***************************************************************************)
\* ROOT_DIR = os.path.abspath(FS_ROOT): the directory /r
ROOT_DIR == <<SEP, "r">>

N_r == <<"r">>
N_a == <<"a">>
N_l == <<"l">>
N_e == <<"e">>
\* a sibling of the root whose name starts with the root's name: /r2
N_r2 == <<"r", "2">>

\* the segments a caller-supplied path is made of ("" leads an absolute path)
Segs == {<<>>, DOTDOT, N_a, N_l, N_r2}

\* the path strings of at most k segments
UserPaths(k) == {JoinSep(s) : s \in UNION {[1..n -> Segs] : n \in 1..k}}

\* the lines of a text file, and the texts a caller writes or looks for
LineTexts == {"x", "y"}
Contents == UNION {[1..n -> LineTexts] : n \in 0..MaxLines}

Dir == [kind |-> "dir", lines |-> <<>>, to |-> <<>>]
File(ls) == [kind |-> "file", lines |-> ls, to |-> <<>>]
Link(t) == [kind |-> "link", lines |-> <<>>, to |-> t]

\* the filesystem at start-up: the root holds a file and a symlink to the
\* directory /e outside it; /r2 is a sibling directory
InitFs ==
    (<<>> :> Dir) @@ (<<N_r>> :> Dir) @@ (<<N_r, N_a>> :> File(<<"x", "y", "x">>))
    @@ (<<N_r, N_l>> :> Link(<<N_e>>))
    @@ (<<N_e>> :> Dir) @@ (<<N_e, N_a>> :> File(<<"y">>))
    @@ (<<N_r2>> :> Dir) @@ (<<N_r2, N_a>> :> File(<<"x">>))

RECURSIVE Walk(_, _, _, _)
\* the kernel's path walk: symlinks in the middle of a path are always
\* followed, the last component only when follow is TRUE
Walk(f, done, rest, follow) ==
    IF rest = <<>> THEN done
    ELSE LET cand == Append(done, Head(rest))
             isLink == cand \in DOMAIN f /\ f[cand].kind = "link"
                       /\ (Len(rest) > 1 \/ follow)
         IN  Walk(f, IF isLink THEN f[cand].to ELSE cand, Tail(rest), follow)

\* the location an absolute path string names, following symlinks (open, stat)
Real(f, s) == Walk(f, <<>>, Comps(s), TRUE)
\* the same, not following a final symlink (rename, lstat)
RealNoFollow(f, s) == Walk(f, <<>>, Comps(s), FALSE)

\* os.path.exists / isfile / isdir
Exists(f, s) == Real(f, s) \in DOMAIN f
IsFile(f, s) == Exists(f, s) /\ f[Real(f, s)].kind = "file"
IsDir(f, s) == Exists(f, s) /\ f[Real(f, s)].kind = "dir"

IsPrefix(a, b) == Len(a) <= Len(b) /\ SubSeq(b, 1, Len(a)) = a

\* the entries of the directory at location d
Children(f, d) == {l \in DOMAIN f : Len(l) = Len(d) + 1 /\ IsPrefix(d, l)}

\* posixpath.relpath(path, start) of two absolute paths
RelPath(s, start) ==
    LET sl == Comps(start)
        pl == Comps(s)
        common == {k \in 0..Len(sl) : k <= Len(pl) /\ SubSeq(sl, 1, k) = SubSeq(pl, 1, k)}
        i == CHOOSE k \in common : \A j \in common : j <= k
        rel == [k \in 1..(Len(sl) - i) |-> DOTDOT] \o SubSeq(pl, i + 1, Len(pl))
    IN  IF rel = <<>> THEN DOT ELSE JoinSep(rel)

\* _is_safe_path: abspath(join(ROOT_DIR, path)).startswith(abspath(ROOT_DIR))
is_safe_path(path) ==
    LET abs_path == AbsPath(PathJoin(ROOT_DIR, path))
        abs_root == AbsPath(ROOT_DIR)
    IN  StartsWith(abs_path, abs_root)

\* _get_abs_path
get_abs_path(path) == AbsPath(PathJoin(ROOT_DIR, path))

\* the results the tools return
Denied == "Error: Access denied."
NoOut == [kind |-> "none"]
Ret(status, out, f, touched) ==
    [status |-> status, out |-> out, fs |-> f, touched |-> touched]

\* os.makedirs(s, exist_ok=True): [ok, fs, made]
MakeDirs(f, s) ==
    LET target == Real(f, s)
        have == {k \in 0..Len(target) : SubSeq(target, 1, k) \in DOMAIN f}
        deepest == CHOOSE k \in have : \A j \in have : j <= k
        made == {SubSeq(target, 1, k) : k \in (deepest + 1)..Len(target)}
    IN  IF f[SubSeq(target, 1, deepest)].kind # "dir"
        THEN [ok |-> FALSE, fs |-> f, made |-> {}]
        ELSE [ok |-> TRUE, fs |-> f @@ [l \in made |-> Dir], made |-> made]

\* list_directory(path)
ListDirectory(f, path) ==
    IF ~is_safe_path(path) THEN Ret(Denied, NoOut, f, {})
    ELSE LET abs_path == get_abs_path(path)
             d == Real(f, abs_path)
         IN  IF ~Exists(f, abs_path) THEN Ret("Error: Path does not exist.", NoOut, f, {d})
             ELSE IF ~IsDir(f, abs_path)
                  THEN Ret("Error: Path is not a directory.", NoOut, f, {d})
             ELSE Ret("ok",
                      [kind |-> "entries",
                       entries |-> {[type |-> IF f[Walk(f, <<>>, e, TRUE)].kind = "dir"
                                              THEN "DIR " ELSE "FILE",
                                     name |-> e[Len(e)]] : e \in Children(f, d)}],
                      f, {d})

\* get_file_info(path)
GetFileInfo(f, path) ==
    IF ~is_safe_path(path) THEN Ret(Denied, NoOut, f, {})
    ELSE LET abs_path == get_abs_path(path)
             d == Real(f, abs_path)
         IN  IF ~Exists(f, abs_path) THEN Ret("Error: File not found.", NoOut, f, {d})
             ELSE Ret("ok", [kind |-> "info", size |-> Len(f[d].lines)], f, {d})

\* Python's seq[lo:hi] for lo >= 0: a negative hi counts from the end
PySlice(seq, lo, hi) ==
    LET n == Len(seq)
        b == IF hi < 0 THEN (IF hi + n < 0 THEN 0 ELSE hi + n)
             ELSE IF hi > n THEN n ELSE hi
        a == IF lo > n THEN n ELSE lo
    IN  IF a >= b THEN <<>> ELSE SubSeq(seq, a + 1, b)

\* the line-range selection of read_file
ReadSelect(lines, start_line, end_line) ==
    LET total_lines == Len(lines)
        s1 == IF start_line < 1 THEN 1 ELSE start_line
        e1 == IF end_line = -1 \/ end_line > total_lines THEN total_lines ELSE end_line
    IN  [kind |-> "lines", from |-> s1, to |-> e1, total |-> total_lines,
         selected |-> PySlice(lines, s1 - 1, e1)]

\* read_file(path, start_line, end_line)
ReadFile(f, path, start_line, end_line) ==
    IF ~is_safe_path(path) THEN Ret(Denied, NoOut, f, {})
    ELSE LET abs_path == get_abs_path(path)
             d == Real(f, abs_path)
         IN  IF ~IsFile(f, abs_path) THEN Ret("Error: Not a file.", NoOut, f, {d})
             ELSE Ret("ok", ReadSelect(f[d].lines, start_line, end_line), f, {d})

\* the glob patterns of search_files: "*" or a literal name
STAR == <<"*">>
Patterns == {STAR, N_a}

\* glob.glob(join(abs_path, pattern)): the matching path strings
Glob(f, abs_path, pattern) ==
    LET d == Real(f, abs_path)
    IN  IF ~IsDir(f, abs_path) THEN {}
        ELSE {PathJoin(abs_path, e[Len(e)]) :
                 e \in {c \in Children(f, d) : pattern = STAR \/ c[Len(c)] = pattern}}

\* search_files(path, pattern)
SearchFiles(f, path, pattern) ==
    IF ~is_safe_path(path) THEN Ret(Denied, NoOut, f, {})
    ELSE LET abs_path == get_abs_path(path)
             files == Glob(f, abs_path, pattern)
             valid_files == {g \in files : is_safe_path(RelPath(g, ROOT_DIR))}
         IN  Ret("ok", [kind |-> "paths",
                        paths |-> {RelPath(g, ROOT_DIR) : g \in valid_files}], f,
                 {Real(f, abs_path)} \cup {RealNoFollow(f, g) : g \in files})

\* os.walk(top) without followlinks: the files below a directory
WalkFiles(f, top) ==
    IF ~IsDir(f, top) THEN {}
    ELSE {l \in DOMAIN f : IsPrefix(Real(f, top), l) /\ f[l].kind = "file"}

\* grep_search(query, path): the (file, line number) pairs that match
GrepSearch(f, query, path) ==
    IF ~is_safe_path(path) THEN Ret(Denied, NoOut, f, {})
    ELSE LET abs_path == get_abs_path(path)
             files == WalkFiles(f, abs_path)
             hits == UNION {{[file |-> l, line |-> i] : i \in {j \in DOMAIN f[l].lines :
                                                      f[l].lines[j] = query}} : l \in files}
         IN  Ret(IF hits = {} THEN "No matches found." ELSE "ok",
                 [kind |-> "hits", hits |-> hits], f,
                 {Real(f, abs_path)} \cup files)

\* open(abs_path, 'w') and write: [ok, fs]
OpenWrite(f, abs_path, content) ==
    LET d == Real(f, abs_path)
    IN  IF d \in DOMAIN f /\ f[d].kind # "file" THEN [ok |-> FALSE, fs |-> f]
        ELSE IF SubSeq(d, 1, Len(d) - 1) \notin DOMAIN f
                \/ f[SubSeq(d, 1, Len(d) - 1)].kind # "dir" THEN [ok |-> FALSE, fs |-> f]
        ELSE [ok |-> TRUE, fs |-> (d :> File(content)) @@ f]

\* write_file(path, content)
WriteFile(f, path, content) ==
    IF ~is_safe_path(path) THEN Ret(Denied, NoOut, f, {})
    ELSE LET abs_path == get_abs_path(path)
             md == MakeDirs(f, DirName(abs_path))
             w == OpenWrite(md.fs, abs_path, content)
             seen == {Real(f, DirName(abs_path)), Real(md.fs, abs_path)} \cup md.made
         IN  IF ~md.ok THEN Ret("Error writing file", NoOut, f, seen)
             ELSE IF ~w.ok THEN Ret("Error writing file", NoOut, md.fs, seen)
             ELSE Ret("ok", NoOut, w.fs, seen)

\* str.replace on the lines of a file
ReplaceLines(lines, old_text, new_text) ==
    [i \in DOMAIN lines |-> IF lines[i] = old_text THEN new_text ELSE lines[i]]

\* replace_in_file(path, old_text, new_text)
ReplaceInFile(f, path, old_text, new_text) ==
    IF ~is_safe_path(path) THEN Ret(Denied, NoOut, f, {})
    ELSE LET abs_path == get_abs_path(path)
             d == Real(f, abs_path)
         IN  IF ~IsFile(f, abs_path) THEN Ret("Error: File not found.", NoOut, f, {d})
             ELSE IF \A i \in DOMAIN f[d].lines : f[d].lines[i] # old_text
                  THEN Ret("Error: old_text not found in file.", NoOut, f, {d})
             ELSE Ret("ok", NoOut,
                      (d :> File(ReplaceLines(f[d].lines, old_text, new_text))) @@ f, {d})

\* create_directory(path)
CreateDirectory(f, path) ==
    IF ~is_safe_path(path) THEN Ret(Denied, NoOut, f, {})
    ELSE LET abs_path == get_abs_path(path)
             md == MakeDirs(f, abs_path)
         IN  IF ~md.ok THEN Ret("Error creating directory", NoOut, f, {Real(f, abs_path)})
             ELSE Ret("ok", NoOut, md.fs, {Real(f, abs_path)} \cup md.made)

\* os.rename(src, dst): [ok, fs]
Rename(f, src, dst) ==
    LET s == RealNoFollow(f, src)
        d == RealNoFollow(f, dst)
        parent == SubSeq(d, 1, Len(d) - 1)
        sub == {l \in DOMAIN f : IsPrefix(s, l)}
        moved == {d \o SubSeq(l, Len(s) + 1, Len(l)) : l \in sub}
    IN  IF s \notin DOMAIN f \/ s = <<>> \/ d = <<>> THEN [ok |-> FALSE, fs |-> f]
        ELSE IF parent \notin DOMAIN f \/ f[parent].kind # "dir" THEN [ok |-> FALSE, fs |-> f]
        ELSE IF s = d THEN [ok |-> TRUE, fs |-> f]
        ELSE IF IsPrefix(s, d) THEN [ok |-> FALSE, fs |-> f]
        ELSE IF d \in DOMAIN f /\ (f[s].kind = "dir" \/ f[d].kind = "dir")
             THEN [ok |-> FALSE, fs |-> f]
        ELSE [ok |-> TRUE,
              fs |-> [l \in ((DOMAIN f \ sub) \cup moved) |->
                        IF l \in moved
                        THEN f[s \o SubSeq(l, Len(d) + 1, Len(l))]
                        ELSE f[l]]]

\* posixpath.basename of a normalized path
BaseName(s) == LET c == Comps(s) IN IF c = <<>> THEN <<>> ELSE c[Len(c)]

\* shutil.move(src, dst) on one device: [ok, fs, dst]
ShutilMove(f, src, dst) ==
    IF IsDir(f, dst)
    THEN IF Exists(f, src) /\ Real(f, src) = Real(f, dst)
         THEN [ok |-> TRUE, fs |-> f, dst |-> dst]
         ELSE LET real_dst == PathJoin(dst, BaseName(src))
                  r == Rename(f, src, real_dst)
              IN  IF Exists(f, real_dst) THEN [ok |-> FALSE, fs |-> f, dst |-> real_dst]
                  ELSE [ok |-> r.ok, fs |-> r.fs, dst |-> real_dst]
    ELSE LET r == Rename(f, src, dst) IN [ok |-> r.ok, fs |-> r.fs, dst |-> dst]

\* the test of move_file with "and" for "or": it denies only when both fail
MoveDeniedBoth(source, destination) ==
    ~is_safe_path(source) /\ ~is_safe_path(destination)

\* the first test of move_file: either argument fails the sandbox check
MoveDenied(source, destination) ==
    ~is_safe_path(source) \/ ~is_safe_path(destination)

\* move_file(source, destination)
MoveFile(f, source, destination) ==
    IF MoveDenied(source, destination) THEN Ret(Denied, NoOut, f, {})
    ELSE LET abs_src == get_abs_path(source)
             abs_dest == get_abs_path(destination)
             md == MakeDirs(f, DirName(abs_dest))
             mv == ShutilMove(md.fs, abs_src, abs_dest)
             seen == {RealNoFollow(f, abs_src), Real(f, DirName(abs_dest)),
                      RealNoFollow(md.fs, mv.dst)} \cup md.made
         IN  IF ~md.ok THEN Ret("Error moving file", NoOut, f, seen)
             ELSE IF ~mv.ok THEN Ret("Error moving file", NoOut, md.fs, seen)
             ELSE Ret("ok", NoOut, mv.fs, seen)

(***************************************************************************)
(* State of the filesystem server: the filesystem, and for the last tool   *)
(* call a summary of its arguments, what it returned and the locations it  *)
(* accessed.                                                               *)
(***************************************************************************)
VARIABLES fs, call, result, touched, served

fsVars == <<fs, call, result, touched, served>>

(* State of the documentation server. *)
VARIABLES
    corpus,          \* the *.md files under DOCS_DIR, in glob order
    backendUp,       \* whether the embedding backend can be loaded and run
    model,           \* the global model: "None" or "loaded"
    doc_index,       \* the global doc_index
    doc_embeddings,  \* the global doc_embeddings: [none, rows]
    idxGen, embGen,  \* the rebuild each global was last assigned by
    gens,            \* rebuilds started
    loads,           \* times SentenceTransformer(MODEL_NAME) has run
    changed,         \* whether a file changed since the last rebuild completed
    pc, loc,         \* per thread: statement and local variables
    dres             \* the last response

docVars == <<corpus, backendUp, model, doc_index, doc_embeddings, idxGen, embGen,
             gens, loads, changed, pc, loc, dres>>

vars == <<fsVars, docVars>>

\* the location of the sandbox root
RootLoc == Comps(ROOT_DIR)

\* the containment the sandbox is specified to enforce: the normalized
\* absolute path is the root or begins with root + separator
Contained(path) ==
    LET abs_path == AbsPath(PathJoin(ROOT_DIR, path))
    IN  abs_path = ROOT_DIR \/ StartsWith(abs_path, ROOT_DIR \o <<SEP>>)

\* what a call's path arguments are, as far as the sandbox is concerned
Summary(tool, paths, args) ==
    [tool |-> tool,
     paths |-> paths,
     unsafe |-> \E p \in paths : ~is_safe_path(p),
     lexOut |-> \E p \in paths : ~Contained(p),
     linkOut |-> \E p \in paths :
                    Contained(p) /\ ~IsPrefix(RootLoc, Real(fs, get_abs_path(p))),
     args |-> args]

Returns(tool, paths, args, r) ==
    /\ call' = Summary(tool, paths, args)
    /\ result' = [status |-> r.status, out |-> r.out]
    /\ touched' = r.touched
    /\ fs' = r.fs
    /\ served' = TRUE
    /\ UNCHANGED docVars

Starts == (-1)..(MaxLines + 3)
Ends == (-3)..(MaxLines + 3)

\* a tree the tools leave behind: a directory /r/r2 with a file in it
UsedFs == (<<N_r, N_r2>> :> Dir) @@ (<<N_r, N_r2, N_a>> :> File(<<"y">>)) @@ InitFs

\* the trees a request is served on
StartTrees == {InitFs, UsedFs}

\* one request is followed: the server is idle on one of the trees and
\* serves one tool call
FsStart(f) ==
    /\ fs = f
    /\ call = [tool |-> "none", paths |-> {}, unsafe |-> FALSE, lexOut |-> FALSE, linkOut |-> FALSE,
               args |-> <<>>]
    /\ result = [status |-> "none", out |-> NoOut]
    /\ touched = {}
    /\ served = FALSE

list_directory ==
    /\ ~served
    /\ \E path \in UserPaths(MaxSegs) :
          Returns("list_directory", {path}, <<>>, ListDirectory(fs, path))

get_file_info ==
    /\ ~served
    /\ \E path \in UserPaths(MaxSegs) :
          Returns("get_file_info", {path}, <<>>, GetFileInfo(fs, path))

read_file ==
    /\ ~served
    /\ \E path \in UserPaths(MaxSegs), start_line \in Starts, end_line \in Ends :
          Returns("read_file", {path},
                   <<start_line, end_line,
                     IF IsFile(fs, get_abs_path(path))
                     THEN fs[Real(fs, get_abs_path(path))].lines ELSE <<>>>>,
                   ReadFile(fs, path, start_line, end_line))

search_files ==
    /\ ~served
    /\ \E path \in UserPaths(MaxSegs), pattern \in Patterns :
          Returns("search_files", {path}, <<>>, SearchFiles(fs, path, pattern))

grep_search ==
    /\ ~served
    /\ \E path \in UserPaths(MaxSegs), query \in LineTexts :
          Returns("grep_search", {path}, <<>>, GrepSearch(fs, query, path))

write_file ==
    /\ ~served
    /\ \E path \in UserPaths(MaxSegs), content \in Contents :
          Returns("write_file", {path}, <<>>, WriteFile(fs, path, content))

replace_in_file ==
    /\ ~served
    /\ \E path \in UserPaths(MaxSegs), old_text \in LineTexts, new_text \in LineTexts :
          Returns("replace_in_file", {path}, <<>>,
                  ReplaceInFile(fs, path, old_text, new_text))

create_directory ==
    /\ ~served
    /\ \E path \in UserPaths(MaxSegs) :
          Returns("create_directory", {path}, <<>>, CreateDirectory(fs, path))

move_file ==
    /\ ~served
    /\ \E source \in UserPaths(MaxSegs), destination \in UserPaths(MaxSegs) :
          Returns("move_file", {source, destination}, <<>>,
                  MoveFile(fs, source, destination))

FsNext ==
    \/ list_directory
    \/ get_file_info
    \/ read_file
    \/ search_files
    \/ grep_search
    \/ write_file
    \/ replace_in_file
    \/ create_directory
    \/ move_file

(***************************************************************************)
(* documentation-mcp: embeddings.  A text is a sequence of characters; the *)
(* model maps it to a vector along one of two axes, so that norms and      *)
(* cosine similarities are exact integers.                                 *)
(***************************************************************************)
\* the texts of documents and queries
DocTexts == {<<"p">>, <<"q">>}
Queries == {<<"p">>, <<"q">>}

\* content[:n]
Prefix(text, n) == SubSeq(text, 1, IF Len(text) < n THEN Len(text) ELSE n)

\* the character budgets of index_docs
EmbedChars == 1000
PreviewChars == 200

\* model.encode of one text: the direction is set by whether the text has
\* a "q", the length by the number of characters
Encode(text) ==
    IF \E i \in DOMAIN text : text[i] = "q" THEN <<0, Len(text)>> ELSE <<Len(text), 0>>

Abs(x) == IF x < 0 THEN -x ELSE x

\* np.linalg.norm of a vector along an axis
Norm(v) == Abs(v[1]) + Abs(v[2])

\* v / norm
Normalize(v) == <<v[1] \div Norm(v), v[2] \div Norm(v)>>

\* np.dot
Dot(u, v) == u[1] * v[1] + u[2] * v[2]

\* sklearn cosine_similarity of the query with every row
CosineSimilarity(q, rows) == [i \in DOMAIN rows |-> Dot(Normalize(q), Normalize(rows[i]))]

\* np.argsort(similarities): the orders of the indices with ascending
\* scores.  The default sort kind is not stable, so the order of equal
\* scores depends on the numpy build and the array: every such order is an
\* outcome
ArgSort(sims) ==
    LET n == Len(sims)
    IN  {p \in [1..n -> 1..n] :
            /\ \A i, j \in 1..n : i # j => p[i] # p[j]
            /\ \A i, j \in 1..n : i < j => sims[p[i]] <= sims[p[j]]}

\* seq[::-1]
Reverse(seq) == [k \in 1..Len(seq) |-> seq[Len(seq) + 1 - k]]

\* order[::-1][:top_k]
TopIndices(order, top_k) == PySlice(Reverse(order), 0, top_k)

(***************************************************************************)
(* documentation-mcp: the documentation directory, the index and the       *)
(* requests.  A request is served by a thread, one statement at a time.    *)
(***************************************************************************)
DOCS_DIR == <<SEP, "r">>
DocDenied == "Error: Access denied. Path is outside documentation directory."

DocIds == 1..MaxDocs
Threads == 1..NThreads
MainThread == 1
TopKs == (-1)..(MaxDocs + 1)
\* top_k when the caller gives none: more than the directory holds
DefaultTopK == MaxDocs + 1

\* a markdown file of the directory: absent, unreadable (not UTF-8), or text
Absent == [st |-> "absent", content |-> <<>>]
Unreadable == [st |-> "unreadable", content |-> <<>>]
Text(c) == [st |-> "text", content |-> c]
FileStates == {Absent, Unreadable} \cup {Text(c) : c \in DocTexts}

NoneEmb == [none |-> TRUE, rows |-> <<>>]
Emb(rows) == [none |-> FALSE, rows |-> rows]

IdleLoc ==
    [op |-> "none", query |-> <<>>, top_k |-> 0, path |-> <<>>, ret |-> "none",
     new_index |-> <<>>, texts |-> <<>>, embeddings |-> <<>>, gen |-> 0,
     query_vec |-> <<0, 0>>,
     sims |-> <<>>, top |-> <<>>, results |-> <<>>,
     embSeen |-> 0, idxSeen |-> <<>>, rows |-> 0, readable |-> 0, held |-> 0, down |-> FALSE,
     before |-> [index |-> <<>>, embeddings |-> NoneEmb], changed |-> TRUE,
     prev |-> [failed |-> FALSE, index |-> <<>>]]

NoResp ==
    [op |-> "none", status |-> "none", count |-> 0, hits |-> <<>>, text |-> <<>>,
     query |-> <<>>, top_k |-> 0, path |-> <<>>, rows |-> 0, readable |-> 0,
     held |-> 0, down |-> FALSE, embSeen |-> 0, idxSeen |-> <<>>,
     before |-> [index |-> <<>>, embeddings |-> NoneEmb], changed |-> TRUE, gen |-> 0,
     prev |-> [failed |-> FALSE, index |-> <<>>]]

\* the response of thread t's request
Resp(l, status, count, hits, text) ==
    [op |-> l.op, status |-> status, count |-> count, hits |-> hits, text |-> text,
     query |-> l.query, top_k |-> l.top_k, path |-> l.path, rows |-> l.rows,
     readable |-> l.readable, held |-> l.held, down |-> l.down,
     embSeen |-> l.embSeen, idxSeen |-> l.idxSeen, before |-> l.before, changed |-> l.changed,
     gen |-> l.gen, prev |-> l.prev]

\* a scan that took every file found, readable or not
Found(c) == {i \in DocIds : c[i].st # "absent"}

\* the readable files, in glob order
Readable(c) == {i \in DocIds : c[i].st = "text"}

DocStart(c, b) ==
    /\ corpus = c
    /\ backendUp = b
    /\ model = "None"
    /\ doc_index = <<>>
    /\ doc_embeddings = NoneEmb
    /\ idxGen = 0
    /\ embGen = 0
    /\ gens = 0
    /\ loads = 0
    /\ changed = TRUE
    /\ pc = [t \in Threads |-> "idle"]
    /\ loc = [t \in Threads |-> IdleLoc]
    /\ dres = NoResp

\* the documentation server in a fresh process, over each directory content
DocInit ==
    /\ FsStart(InitFs)
    /\ \E c \in [DocIds -> FileStates], b \in BOOLEAN : DocStart(c, b)

\* the same over each tree
FetchInit ==
    /\ \E f \in StartTrees : FsStart(f)
    /\ \E c \in [DocIds -> FileStates], b \in BOOLEAN : DocStart(c, b)

\* the filesystem server over each start tree, beside a documentation
\* server nobody calls
FsInit ==
    /\ \E f \in StartTrees : FsStart(f)
    /\ DocStart([i \in DocIds |-> Absent], TRUE)

\* rel_path of the i-th file, and f"Path: {rel_path}\nContent: {content[:1000]}"
RelName(i) == <<"d", IF i = 1 THEN "1" ELSE IF i = 2 THEN "2" ELSE "3">>
TextToEmbed(i, content) == <<"P">> \o RelName(i) \o <<"C">> \o Prefix(content, EmbedChars)

\* the for loop of index_docs over the files found: a file that cannot be
\* read is logged and skipped
ScanIndex(c) ==
    LET ids == Readable(c)
        nth(k) == CHOOSE i \in ids : Cardinality({j \in ids : j < i}) = k - 1
    IN  [k \in 1..Cardinality(ids) |->
            [path |-> nth(k), preview |-> Prefix(c[nth(k)].content, PreviewChars) \o <<".", ".", ".">>]]
\* a scan that collected the texts in the opposite order to the records
ReversedTexts(c) ==
    LET ids == Readable(c)
        nth(k) == CHOOSE i \in ids : Cardinality({j \in ids : j > i}) = k - 1
    IN  [k \in 1..Cardinality(ids) |-> TextToEmbed(nth(k), c[nth(k)].content)]

ScanTexts(c) ==
    LET ids == Readable(c)
        nth(k) == CHOOSE i \in ids : Cardinality({j \in ids : j < i}) = k - 1
    IN  [k \in 1..Cardinality(ids) |-> TextToEmbed(nth(k), c[nth(k)].content)]

\* the request of thread t ends with a response, or with an exception
Finish(t, resp) ==
    /\ pc' = [pc EXCEPT ![t] = "idle"]
    /\ loc' = [loc EXCEPT ![t] = IdleLoc]
    /\ dres' = resp
Raise(t) == Finish(t, Resp(loc[t], "raised", 0, <<>>, <<>>))
Goto(t, label, l) ==
    /\ pc' = [pc EXCEPT ![t] = label]
    /\ loc' = [loc EXCEPT ![t] = l]
    /\ dres' = dres

\* whether a response is that of a request whose rebuild raised
FailedRebuild(resp) ==
    /\ resp.status = "raised"
    /\ resp.op = "refresh_index" \/ (resp.op = "search_docs" /\ resp.held = 0)

\* a request arrives for thread t
Begin(t, l, label) ==
    /\ pc[t] = "idle"
    /\ pc' = [pc EXCEPT ![t] = label]
    /\ loc' = [loc EXCEPT ![t] = [l EXCEPT !.readable = Cardinality(Readable(corpus)),
                                            !.held = Len(doc_index), !.down = ~backendUp,
                                            !.before = [index |-> doc_index,
                                                        embeddings |-> doc_embeddings],
                                            !.changed = changed,
                                            !.prev = [failed |-> FailedRebuild(dres),
                                                      index |-> dres.before.index]]]
    /\ dres' = NoResp
    /\ UNCHANGED <<corpus, backendUp, model, doc_index, doc_embeddings, idxGen, embGen, gens, loads>>
    /\ UNCHANGED <<fsVars, changed>>

\* refresh_index() is called
call_refresh_index(t) ==
    Begin(t, [IdleLoc EXCEPT !.op = "refresh_index", !.ret = "refresh_return"], "load_model")

\* search_docs(query, top_k) is called
call_search_docs(t, query, top_k) ==
    Begin(t, [IdleLoc EXCEPT !.op = "search_docs", !.query = query, !.top_k = top_k,
                             !.ret = "search_recheck"], "search_check")

\* load_model: if model is None
load_model(t) ==
    /\ pc[t] = "load_model"
    /\ Goto(t, IF model = "None" THEN "construct" ELSE "scan", loc[t])
    /\ UNCHANGED <<corpus, backendUp, model, doc_index, doc_embeddings, idxGen, embGen, gens, loads>>
    /\ UNCHANGED <<fsVars, changed>>

\* load_model: SentenceTransformer(MODEL_NAME) runs, or raises
construct_model(t) ==
    /\ pc[t] = "construct"
    /\ IF backendUp
       THEN /\ loads' = loads + 1
            /\ Goto(t, "assign_model", loc[t])
       ELSE /\ loads' = loads
            /\ Raise(t)
    /\ UNCHANGED <<corpus, backendUp, model, doc_index, doc_embeddings, idxGen, embGen, gens>>
    /\ UNCHANGED <<fsVars, changed>>

\* load_model: model = <the instance constructed>
assign_model(t) ==
    /\ pc[t] = "assign_model"
    /\ model' = "loaded"
    /\ Goto(t, "scan", loc[t])
    /\ UNCHANGED <<corpus, backendUp, doc_index, doc_embeddings, idxGen, embGen, gens, loads>>
    /\ UNCHANGED <<fsVars, changed>>

\* index_docs: glob the directory and read the files into new_index, texts
scan_files(t) ==
    /\ pc[t] = "scan"
    /\ gens' = gens + 1
    /\ Goto(t, IF ScanTexts(corpus) = <<>> THEN "clear_index" ELSE "encode",
            [loc[t] EXCEPT !.new_index = ScanIndex(corpus), !.texts = ScanTexts(corpus),
                           !.gen = gens + 1, !.readable = Cardinality(Readable(corpus))])
    /\ UNCHANGED <<corpus, backendUp, model, doc_index, doc_embeddings, idxGen, embGen, loads>>
    /\ UNCHANGED <<fsVars, changed>>

\* index_docs, nothing to index: doc_index = []
clear_index(t) ==
    /\ pc[t] = "clear_index"
    /\ doc_index' = <<>>
    /\ idxGen' = loc[t].gen
    /\ Goto(t, "clear_embeddings", loc[t])
    /\ UNCHANGED <<corpus, backendUp, model, doc_embeddings, embGen, gens, loads>>
    /\ UNCHANGED <<fsVars, changed>>

\* index_docs, nothing to index: doc_embeddings = None; return
clear_embeddings(t) ==
    /\ pc[t] = "clear_embeddings"
    /\ doc_embeddings' = NoneEmb
    /\ embGen' = loc[t].gen
    /\ Goto(t, loc[t].ret, loc[t])
    /\ UNCHANGED <<corpus, backendUp, model, doc_index, idxGen, gens, loads>>
    /\ changed' = FALSE
    /\ UNCHANGED fsVars

\* a rebuild that assigned doc_index before it encoded the texts
StoringEncode(t) ==
    /\ pc[t] = "encode"
    /\ doc_index' = loc[t].new_index
    /\ IF backendUp /\ model = "loaded"
       THEN Goto(t, "store_embeddings",
                 [loc[t] EXCEPT !.embeddings = [k \in DOMAIN loc[t].texts |-> Encode(loc[t].texts[k])]])
       ELSE Raise(t)
    /\ UNCHANGED <<corpus, backendUp, model, doc_embeddings, idxGen, embGen, gens, loads>>
    /\ UNCHANGED <<fsVars, changed>>

\* index_docs: embeddings = model.encode(texts)
encode_texts(t) ==
    /\ pc[t] = "encode"
    /\ IF backendUp /\ model = "loaded"
       THEN Goto(t, "store_embeddings",
                 [loc[t] EXCEPT !.embeddings = [k \in DOMAIN loc[t].texts |-> Encode(loc[t].texts[k])]])
       ELSE Raise(t)
    /\ UNCHANGED <<corpus, backendUp, model, doc_index, doc_embeddings, idxGen, embGen, gens, loads>>
    /\ UNCHANGED <<fsVars, changed>>

\* index_docs: doc_embeddings = embeddings / norm
store_embeddings(t) ==
    /\ pc[t] = "store_embeddings"
    /\ doc_embeddings' = Emb([k \in DOMAIN loc[t].embeddings |-> Normalize(loc[t].embeddings[k])])
    /\ embGen' = loc[t].gen
    /\ Goto(t, "store_index", loc[t])
    /\ UNCHANGED <<corpus, backendUp, model, doc_index, idxGen, gens, loads>>
    /\ UNCHANGED <<fsVars, changed>>

\* a rebuild that appended to the held list instead of replacing it
AccumulatedIndex(held_index, new_index) == held_index \o new_index

\* the value index_docs assigns to doc_index
StoredIndex(held_index, new_index) == new_index

\* index_docs: doc_index = new_index; return
store_index(t) ==
    /\ pc[t] = "store_index"
    /\ doc_index' = StoredIndex(doc_index, loc[t].new_index)
    /\ idxGen' = loc[t].gen
    /\ Goto(t, loc[t].ret, loc[t])
    /\ UNCHANGED <<corpus, backendUp, model, doc_embeddings, embGen, gens, loads>>
    /\ changed' = FALSE
    /\ UNCHANGED fsVars

\* refresh_index: return f"Indexed {len(doc_index)} documents."
refresh_return(t) ==
    /\ pc[t] = "refresh_return"
    /\ Finish(t, Resp(loc[t], "ok", Len(doc_index), <<>>, <<>>))
    /\ UNCHANGED <<corpus, backendUp, model, doc_index, doc_embeddings, idxGen, embGen, gens, loads>>
    /\ UNCHANGED <<fsVars, changed>>

\* a search that rebuilt the index on every call
AlwaysIndex(index) == TRUE

\* `not doc_index` at the head of search_docs
NotDocIndex(index) == index = <<>>

\* search_docs: if not doc_index: index_docs()
search_check(t) ==
    /\ pc[t] = "search_check"
    /\ Goto(t, IF NotDocIndex(doc_index) THEN "load_model" ELSE "encode_query", loc[t])
    /\ UNCHANGED <<corpus, backendUp, model, doc_index, doc_embeddings, idxGen, embGen, gens, loads>>
    /\ UNCHANGED <<fsVars, changed>>

\* search_docs, after index_docs(): if not doc_index: return "No documentation ..."
search_recheck(t) ==
    /\ pc[t] = "search_recheck"
    /\ IF doc_index = <<>>
       THEN Finish(t, Resp(loc[t], "No documentation found to search.", 0, <<>>, <<>>))
       ELSE Goto(t, "encode_query", loc[t])
    /\ UNCHANGED <<corpus, backendUp, model, doc_index, doc_embeddings, idxGen, embGen, gens, loads>>
    /\ UNCHANGED <<fsVars, changed>>

\* search_docs: query_vec = model.encode([query]), normalised
encode_query(t) ==
    /\ pc[t] = "encode_query"
    /\ IF backendUp /\ model = "loaded"
       THEN Goto(t, "similarities", [loc[t] EXCEPT !.query_vec = Normalize(Encode(loc[t].query))])
       ELSE Raise(t)
    /\ UNCHANGED <<corpus, backendUp, model, doc_index, doc_embeddings, idxGen, embGen, gens, loads>>
    /\ UNCHANGED <<fsVars, changed>>

\* search_docs: similarities = cosine_similarity(query_vec, doc_embeddings)[0]
\*              top_indices = np.argsort(similarities)[::-1][:top_k]
similarities(t) ==
    /\ pc[t] = "similarities"
    /\ IF doc_embeddings.none
       THEN Raise(t)
       ELSE LET sims == CosineSimilarity(loc[t].query_vec, doc_embeddings.rows)
            IN  \E order \in ArgSort(sims) :
                    Goto(t, "collect",
                         [loc[t] EXCEPT !.sims = sims, !.top = TopIndices(order, loc[t].top_k),
                                        !.embSeen = embGen, !.rows = Len(doc_embeddings.rows)])
    /\ UNCHANGED <<corpus, backendUp, model, doc_index, doc_embeddings, idxGen, embGen, gens, loads>>
    /\ UNCHANGED <<fsVars, changed>>

\* search_docs: one turn of `for idx in top_indices`, or the return after it
collect(t) ==
    /\ pc[t] = "collect"
    /\ LET l == loc[t]
           k == Len(l.results) + 1
       IN  IF k > Len(l.top)
           THEN Finish(t, Resp(l, "ok", Len(l.results), l.results, <<>>))
           ELSE IF l.top[k] > Len(doc_index)
           THEN Raise(t)
           ELSE Goto(t, "collect",
                     [l EXCEPT !.results = Append(@, [score |-> l.sims[l.top[k]],
                                                      path |-> doc_index[l.top[k]].path,
                                                      preview |-> doc_index[l.top[k]].preview]),
                               !.idxSeen = Append(@, idxGen)])
    /\ UNCHANGED <<corpus, backendUp, model, doc_index, doc_embeddings, idxGen, embGen, gens, loads>>
    /\ UNCHANGED <<fsVars, changed>>

\* open(safe_path).read() of get_full_doc
ReadDoc(f, safe_path) ==
    LET d == Real(f, safe_path)
    IN  IF d \in DOMAIN f
        THEN IF f[d].kind = "file" THEN [status |-> "ok", text |-> f[d].lines]
             ELSE [status |-> "Error reading file: Is a directory", text |-> <<>>]
        ELSE IF \E n \in 1..Len(d) : SubSeq(d, 1, n) \in DOMAIN f /\ f[SubSeq(d, 1, n)].kind = "file"
        THEN [status |-> "Error reading file: Not a directory", text |-> <<>>]
        ELSE [status |-> "Error: File not found.", text |-> <<>>]

\* get_full_doc(path) on the filesystem f
GetFullDoc(f, path) ==
    LET safe_path == NormPath(PathJoin(DOCS_DIR, path))
    IN  IF ~StartsWith(safe_path, AbsPath(DOCS_DIR))
        THEN [status |-> DocDenied, text |-> <<>>]
        ELSE ReadDoc(f, safe_path)

\* get_full_doc(path) is called and returns
get_full_doc(t) ==
    /\ pc[t] = "idle"
    /\ \E path \in UserPaths(MaxSegs) :
           LET r == GetFullDoc(fs, path)
           IN  /\ dres' = Resp([IdleLoc EXCEPT !.op = "get_full_doc", !.path = path],
                               r.status, 0, <<>>, r.text)
               /\ UNCHANGED <<pc, loc>>
    /\ UNCHANGED <<corpus, backendUp, model, doc_index, doc_embeddings, idxGen, embGen, gens, loads>>
    /\ UNCHANGED <<fsVars, changed>>

AllIdle == \A t \in Threads : pc[t] = "idle"

\* between requests, a markdown file is written, removed or made unreadable
edit_corpus ==
    /\ AllIdle
    /\ \E i \in DocIds, st \in FileStates :
           /\ corpus[i] # st
           /\ corpus' = [corpus EXCEPT ![i] = st]
    /\ UNCHANGED <<backendUp, model, doc_index, doc_embeddings, idxGen, embGen, gens, loads,
                   pc, loc, dres>>
    /\ changed' = TRUE
    /\ UNCHANGED fsVars

\* between requests, the embedding backend becomes unavailable, or available again
backend_change ==
    /\ AllIdle
    /\ backendUp' = ~backendUp
    /\ UNCHANGED <<corpus, model, doc_index, doc_embeddings, idxGen, embGen, gens, loads,
                   pc, loc, dres>>
    /\ UNCHANGED <<fsVars, changed>>

\* a thread takes its next statement
Step(t) ==
    \/ load_model(t)
    \/ construct_model(t)
    \/ assign_model(t)
    \/ scan_files(t)
    \/ clear_index(t)
    \/ clear_embeddings(t)
    \/ encode_texts(t)
    \/ store_embeddings(t)
    \/ store_index(t)
    \/ refresh_return(t)
    \/ search_check(t)
    \/ search_recheck(t)
    \/ encode_query(t)
    \/ similarities(t)
    \/ collect(t)

\* whether a further rebuild is followed
MayRebuild == gens < MaxRebuilds

\* requests served one after the other, by the thread that runs mcp.run()
DocNext ==
    \/ AllIdle /\ MayRebuild /\ call_refresh_index(MainThread)
    \/ \E query \in Queries, top_k \in TopKs :
           /\ AllIdle
           /\ MayRebuild \/ doc_index # <<>>
           /\ call_search_docs(MainThread, query, top_k)
    \/ \E t \in Threads : Step(t)
    \/ edit_corpus
    \/ backend_change

\* requests served by concurrent threads
DocConcNext ==
    \/ \E t \in Threads : MayRebuild /\ call_refresh_index(t)
    \/ \E t \in Threads, query \in Queries : MayRebuild /\ call_search_docs(t, query, DefaultTopK)
    \/ \E t \in Threads : Step(t)
    \/ edit_corpus

SpecDoc == DocInit /\ [][DocNext]_vars

\* get_full_doc alone, over each tree and corpus
FetchNext == \E t \in Threads : get_full_doc(t)

SpecFetch == FetchInit /\ [][FetchNext]_vars

SpecDocConc == DocInit /\ [][DocConcNext]_vars

SpecFS == FsInit /\ [][FsNext]_vars

(***************************************************************************)
(* Properties of the filesystem server.                                    *)
(***************************************************************************)

\* C1: a path is accepted only if its normalized absolute path is ROOT_DIR
\* or begins with ROOT_DIR followed by a separator: a call with an argument
\* outside that set (a sibling such as /r2 included) is denied.
C1_AcceptedOnlyInsideRoot ==
    (served /\ call.lexOut) => result.status = Denied

\* C2: a call whose path argument goes through a symlink inside the root
\* to a target outside it is denied, and accesses no location outside the
\* root.
C2_SymlinkOutsideDenied ==
    (served /\ call.linkOut) =>
        /\ result.status = Denied
        /\ \A l \in touched : IsPrefix(RootLoc, l)

\* C3: a call with an argument that fails the sandbox check returns the
\* 'Access denied' result (move_file: when either argument fails), and a
\* denied call leaves the filesystem unchanged and accesses no location.
C3_DeniedLeavesFsUnchanged ==
    [][/\ call'.unsafe => result'.status = Denied
       /\ result'.status = Denied => (fs' = fs /\ touched' = {})]_fsVars

\* C3 happens: move_file with a safe source and an unsafe destination is
\* denied, on a tree where the move would otherwise have been made
C3_Witness ==
    /\ served
    /\ call.tool = "move_file"
    /\ call.unsafe
    /\ result.status = Denied
    /\ <<N_r, N_a>> \in DOMAIN fs

\* C5: read_file returns exactly the lines max(start_line, 1) through
\* min(end_line, n) of the n lines of the file, end_line = -1 meaning n,
\* an empty range giving an empty selection, and reports the total n.
C5_ReadFileClampedRange ==
    (served /\ call.tool = "read_file" /\ result.status = "ok") =>
        LET start_line == call.args[1]
            end_line == call.args[2]
            lines == call.args[3]
            n == Len(lines)
            lo == IF start_line < 1 THEN 1 ELSE start_line
            hi == IF end_line = -1 \/ end_line > n THEN n ELSE end_line
        IN  /\ result.out.total = n
            /\ result.out.selected = (IF lo > hi THEN <<>> ELSE SubSeq(lines, lo, hi))


(***************************************************************************)
(* Properties of the documentation server.                                 *)
(***************************************************************************)
\* whether the id names the documentation directory or something below it
DocContained(path) ==
    LET abs_path == AbsPath(PathJoin(DOCS_DIR, path))
    IN  abs_path = DOCS_DIR \/ StartsWith(abs_path, DOCS_DIR \o <<SEP>>)

\* C4: get_full_doc with an id that resolves outside the documentation
\* directory returns the Denied result, whether or not the target exists.
C4_OutsideDocsDenied ==
    (dres.op = "get_full_doc" /\ ~DocContained(dres.path)) => dres.status = DocDenied

\* C6: the hits of a search over a snapshot of n records are in order of
\* non-increasing score and number at most top_k clamped to [0, n].
C6_HitsOrderedAndBounded ==
    (dres.op = "search_docs" /\ dres.status = "ok") =>
        LET n == dres.rows
            k == IF dres.top_k < 0 THEN 0 ELSE IF dres.top_k > n THEN n ELSE dres.top_k
        IN  /\ \A i, j \in DOMAIN dres.hits : i < j => dres.hits[i].score >= dres.hits[j].score
            /\ Len(dres.hits) <= k

\* C7: with no readable document and nothing indexed, refresh_index reports
\* 0 documents and leaves an empty snapshot, and search_docs answers that
\* there is nothing to search; neither raises.
C7_EmptyCorpusIsNotAnError ==
    (dres.readable = 0 /\ dres.held = 0) =>
        /\ dres.op = "refresh_index" =>
               dres.status = "ok" /\ dres.count = 0 /\ doc_index = <<>> /\ doc_embeddings.none
        /\ dres.op = "search_docs" => dres.status = "No documentation found to search."

\* C8: a search or refresh made while the embedding backend is unavailable
\* still returns a result; it does not fail.
C8_UnavailableBackendFallsBack ==
    (dres.op \in {"search_docs", "refresh_index"} /\ dres.down) => dres.status # "raised"

\* C9: the model constructor runs at most once, and a caller past load_model
\* sees the model.
C9_ModelConstructedOnce ==
    /\ loads <= 1
    /\ \A t \in Threads :
           pc[t] \in {"scan", "clear_index", "clear_embeddings", "encode", "store_embeddings",
                      "store_index"} => model = "loaded"

\* C10: a search reads the embedding matrix and the record list from the
\* same rebuild.
C10_SearchReadsOneSnapshot ==
    \A t \in Threads : \A i \in DOMAIN loc[t].idxSeen : loc[t].idxSeen[i] = loc[t].embSeen


\* the record ids of a record list
Ids(index) == {index[i].path : i \in DOMAIN index}

\* C11: a refresh_index made when no file has changed since the last
\* completed rebuild leaves the same set of record ids and reports the same
\* count as that rebuild, with no id held twice.
C11_RefreshIdempotent ==
    (dres.op = "refresh_index" /\ dres.status = "ok" /\ ~dres.changed) =>
        /\ Ids(doc_index) = Ids(dres.before.index)
        /\ dres.count = Len(dres.before.index)
        /\ Len(doc_index) = Cardinality(Ids(doc_index))

\* a second refresh_index over an unchanged directory of two documents
C11_Witness ==
    /\ dres.op = "refresh_index" /\ dres.status = "ok" /\ ~dres.changed
    /\ Len(dres.before.index) = 2 /\ dres.count = 2


\* the content a record was built from, recovered from its preview (the
\* contents of the model are shorter than a preview)
ContentOf(record) == SubSeq(record.preview, 1, Len(record.preview) - 3)

\* C12: between requests the held record list and the held matrix are
\* aligned: as many rows as records, row i the normalised embedding of the
\* embed text of record i, no matrix when there is no record, no id twice.
C12_SnapshotAligned ==
    AllIdle =>
        /\ doc_index = <<>> => doc_embeddings.none
        /\ doc_index # <<>> =>
               /\ ~doc_embeddings.none
               /\ Len(doc_embeddings.rows) = Len(doc_index)
               /\ \A i \in DOMAIN doc_index :
                      doc_embeddings.rows[i] =
                          Normalize(Encode(TextToEmbed(doc_index[i].path, ContentOf(doc_index[i]))))
        /\ Len(doc_index) = Cardinality(Ids(doc_index))

\* a snapshot of two documents of different content is held after a search
C12_Witness ==
    /\ AllIdle /\ dres.op = "search_docs" /\ dres.status = "ok"
    /\ Len(doc_index) = 2 /\ doc_index[1].preview # doc_index[2].preview


\* C13: hits of equal score are listed in the order of their records in the
\* index (the records are held in ascending order of path).
C13_TiesInIndexOrder ==
    (dres.op = "search_docs" /\ dres.status = "ok") =>
        \A i, j \in DOMAIN dres.hits :
            (i < j /\ dres.hits[i].score = dres.hits[j].score) =>
                dres.hits[i].path < dres.hits[j].path


\* the records of a record list
Records(index) == {index[i] : i \in DOMAIN index}

\* the record a hit shows
RecordOf(hit) == [path |-> hit.path, preview |-> hit.preview]

\* C14: a search_docs that began with records held starts no rebuild,
\* leaves the record list and the embeddings as they were and answers from
\* them; one that began with none held starts a rebuild before it computes
\* any similarity and answers from what that rebuild stored.
C14_SearchRebuildsIffEmpty ==
    dres.op = "search_docs" =>
        /\ dres.held > 0 =>
               /\ dres.gen = 0
               /\ doc_index = dres.before.index
               /\ doc_embeddings = dres.before.embeddings
               /\ dres.status # "No documentation found to search."
               /\ dres.status = "ok" =>
                      /\ dres.rows = Len(dres.before.index)
                      /\ \A i \in DOMAIN dres.hits : RecordOf(dres.hits[i]) \in Records(dres.before.index)
        /\ (dres.held = 0 /\ dres.status # "raised") => dres.gen > 0
        /\ (dres.held = 0 /\ dres.status = "ok") =>
               /\ dres.embSeen = dres.gen
               /\ \A i \in DOMAIN dres.idxSeen : dres.idxSeen[i] = dres.gen
               /\ \A i \in DOMAIN dres.hits : RecordOf(dres.hits[i]) \in Records(doc_index)

\* a search answered from the held snapshot although the directory now
\* holds a different number of readable files
C14_Witness ==
    /\ dres.op = "search_docs" /\ dres.status = "ok" /\ dres.hits # <<>>
    /\ dres.held > 0 /\ dres.changed /\ dres.readable # dres.held


\* C15: a rebuild skips the files it cannot read and nothing else: the
\* records and the embed texts it collects stay aligned, and a refresh_index
\* leaves exactly one record per readable file, each built from that file,
\* and reports their number.
C15_UnreadableSkipped ==
    /\ \A t \in Threads :
           /\ Len(loc[t].new_index) = Len(loc[t].texts)
           /\ \A k \in DOMAIN loc[t].new_index :
                  loc[t].texts[k] = TextToEmbed(loc[t].new_index[k].path, ContentOf(loc[t].new_index[k]))
    /\ (dres.op = "refresh_index" /\ dres.status = "ok" /\ ~changed) =>
           /\ Ids(doc_index) = {i \in DocIds : corpus[i].st = "text"}
           /\ \A k \in DOMAIN doc_index : ContentOf(doc_index[k]) = corpus[doc_index[k].path].content
           /\ dres.count = Cardinality({i \in DocIds : corpus[i].st = "text"})
           /\ doc_index # <<>> => Len(doc_embeddings.rows) = dres.count

\* a refresh_index over a directory with one unreadable and one readable file
C15_Witness ==
    /\ dres.op = "refresh_index" /\ dres.status = "ok" /\ ~changed
    /\ \E i, j \in DocIds : corpus[i].st = "unreadable" /\ corpus[j].st = "text"
    /\ dres.count = 1


\* C16: a request whose rebuild raised leaves the record list and the
\* embeddings as they were when it began, and a search_docs made after it
\* finds that snapshot held, aligned, and answers from it.
C16_FailedRebuildKeepsSnapshot ==
    /\ FailedRebuild(dres) =>
           /\ doc_index = dres.before.index
           /\ doc_embeddings = dres.before.embeddings
    /\ (dres.op = "search_docs" /\ dres.prev.failed /\ dres.prev.index # <<>>) =>
           /\ dres.before.index = dres.prev.index
           /\ doc_index = dres.prev.index
           /\ Len(doc_embeddings.rows) = Len(dres.prev.index)
           /\ dres.status = "ok" =>
                  /\ dres.gen = 0
                  /\ dres.rows = Len(dres.prev.index)
                  /\ \A i \in DOMAIN dres.hits : RecordOf(dres.hits[i]) \in Records(dres.prev.index)

\* a search answered from the snapshot that a failed refresh_index left
C16_Witness ==
    /\ dres.op = "search_docs" /\ dres.status = "ok" /\ dres.hits # <<>>
    /\ dres.prev.failed /\ dres.prev.index # <<>>

====
